---- MODULE Spec2Model ----
(***************************************************************************)
(* A model of the ICRC-7 ledger core of holykol/icrc7: the Collection      *)
(* aggregate (state.rs), the update calls mint_token, icrc7_approve and    *)
(* icrc7_transfer (update.rs), init and the read accessors (lib.rs).       *)
(*                                                                         *)
(* Representation.                                                         *)
(*  - Option<T>: None is the empty tuple, Some(x) the one-element tuple.   *)
(*  - HashMap / BTreeMap: a function whose DOMAIN is the set of keys.      *)
(*  - HashSet: a set.  Vec: a sequence.                                    *)
(*  - Principal: a string; Subaccount ([u8; 32]): 0 is [0u8; 32], 1 is     *)
(*    [1u8; 32].                                                           *)
(*  - u64 timestamps are counted in MINUTES instead of nanoseconds, so     *)
(*    that they fit TLC's 32-bit integers : PERMITTED_TIME_DRIFT (2        *)
(*    minutes) is 2, TX_DEDUPLICATION_WINDOW (24 h) is 1440 and u64::MAX   *)
(*    (18446744073709551615 ns) is 307445734.  Every comparison of the     *)
(*    source is kept as written; u64 + and - overflow at U64_MAX.          *)
(*  - A call's reply is a record [kind, val, msg]; kind "Trap" is a panic  *)
(*    (the host rolls the call's changes back).                            *)
(***************************************************************************)
EXTENDS Integers, Sequences, FiniteSets, TLC

VARIABLES
    c,                \* the Collection aggregate (state.rs:52-74)
    time,             \* the host clock, ic::time()
    overflow_checks,  \* the build profile: TRUE when u64 overflow panics, FALSE when it wraps
    last              \* the most recent call: [op, res]

vars == <<c, time, overflow_checks, last>>

(***************************************************************************)
(* Option, maps                                                            *)
(***************************************************************************)
None == <<>>

Some(x) == <<x>>

is_some(o) == o # <<>>

is_none(o) == o = <<>>

unwrap(o) == o[1]

unwrap_or(o, d) == IF o = <<>> THEN d ELSE o[1]

EmptyMap == <<>>

MapInsert(m, k, v) == [x \in (DOMAIN m) \cup {k} |-> IF x = k THEN v ELSE m[x]]

MapRetain(m, keep) == [x \in keep |-> m[x]]

(***************************************************************************)
(* u64 arithmetic (minutes)                                                *)
(***************************************************************************)
U64_MAX == 307445734

PERMITTED_TIME_DRIFT == 2

TX_DEDUPLICATION_WINDOW == 1440

add_overflows(a, b) == a + b > U64_MAX

wrapping_add(a, b) == (a + b) % (U64_MAX + 1)

sub_overflows(a, b) == a < b

wrapping_sub(a, b) == (a - b + U64_MAX + 1) % (U64_MAX + 1)

(***************************************************************************)
(* Replies                                                                 *)
(***************************************************************************)
Reply(kind, val, msg) == [kind |-> kind, val |-> val, msg |-> msg]

Ok(v) == Reply("Ok", {v}, "")

OkUnit == Reply("Ok", {}, "")

Trap(msg) == Reply("Trap", {}, msg)

ErrString(msg) == Reply("Err", {}, msg)

GenericError(error_code, message) == Reply("GenericError", {error_code}, message)

Unauthorized(ids) == Reply("Unauthorized", ids, "")

TooOld == Reply("TooOld", {}, "")

CreatedInFuture(ledger_time) == Reply("CreatedInFuture", {ledger_time}, "")

Duplicate(duplicate_of) == Reply("Duplicate", {duplicate_of}, "")

\* What a call leaves behind: the aggregate and the reply.
Outcome(col, res) == [c |-> col, res |-> res]

(***************************************************************************)
(* Account (state.rs:11-47)                                                *)
(***************************************************************************)
ZERO_SUBACCOUNT == 0

anonymous == "anon"

Account(owner, subaccount) == [owner |-> owner, subaccount |-> subaccount]

to_canonical(a) ==
    [owner |-> a.owner, subaccount |-> Some(unwrap_or(a.subaccount, ZERO_SUBACCOUNT))]

from_owner(owner) == to_canonical(Account(owner, None))

(***************************************************************************)
(* Collection (state.rs:52-224)                                            *)
(***************************************************************************)
Collection_default ==
    [ supply_cap             |-> None,
      authority              |-> None,
      tokens                 |-> EmptyMap,
      approval_id_seq        |-> 0,
      approvals              |-> EmptyMap,
      approvals_by_principal |-> EmptyMap,
      transfer_id_seq        |-> 0,
      transfers              |-> EmptyMap ]

\* add_token replacing the registry by the new item alone.
add_token_alone(col, token) ==
    [col EXCEPT !.tokens = MapInsert(EmptyMap, token.id, token)]

add_token(col, token) ==
    [col EXCEPT !.tokens = MapInsert(col.tokens, token.id, token)]

\* Returns the aggregate after the insertion; the id handed out is the old
\* approval_id_seq.
add_approval(col, approval) ==
    LET id   == col.approval_id_seq
        from == approval.from
        idx  == col.approvals_by_principal
        old  == IF from \in DOMAIN idx THEN idx[from] ELSE <<>>
    IN  [col EXCEPT !.approval_id_seq = id + 1,
                    !.approvals = MapInsert(col.approvals, id, approval),
                    !.approvals_by_principal = MapInsert(idx, from, Append(old, id))]

\* find_approval_for_delegate going on to the owner's next approval when one
\* fails a check.
find_approval_for_delegate_any(col, from_acc, delegate, token_id, now) ==
    IF from_acc.owner \notin DOMAIN col.approvals_by_principal THEN None
    ELSE
      LET approvals == col.approvals_by_principal[from_acc.owner]
          passing == { i \in DOMAIN approvals :
                         /\ approvals[i] \in DOMAIN col.approvals
                         /\ LET approval == col.approvals[approvals[i]] IN
                            /\ approval.to = delegate
                            /\ is_none(approval.token_ids)
                                 \/ token_id \in unwrap(approval.token_ids)
                            /\ ~ ( is_some(approval.expires_at)
                                   /\ unwrap(approval.expires_at) < now )
                            /\ is_none(approval.from_subaccount)
                                 \/ unwrap_or(from_acc.subaccount, ZERO_SUBACCOUNT)
                                      = unwrap(approval.from_subaccount) }
      IN  IF passing = {} THEN None
          ELSE Some(approvals[CHOOSE i \in passing : \A j \in passing : i <= j])

\* find_approval_for_delegate with the delegate comparison inverted.
find_approval_for_delegate_other_delegate(col, from_acc, delegate, token_id, now) ==
    IF from_acc.owner \notin DOMAIN col.approvals_by_principal THEN None
    ELSE
      LET approvals == col.approvals_by_principal[from_acc.owner] IN
      IF approvals = <<>> THEN None
      ELSE
        LET approval_id == approvals[1] IN
        IF approval_id \notin DOMAIN col.approvals THEN None
        ELSE
          LET approval == col.approvals[approval_id] IN
          IF approval.to = delegate THEN None
          ELSE IF is_some(approval.token_ids)
                  /\ token_id \notin unwrap(approval.token_ids) THEN None
          ELSE IF is_some(approval.expires_at)
                  /\ unwrap(approval.expires_at) < now THEN None
          ELSE IF is_some(approval.from_subaccount)
                  /\ unwrap_or(from_acc.subaccount, ZERO_SUBACCOUNT)
                       # unwrap(approval.from_subaccount) THEN None
          ELSE Some(approval_id)

\* find_approval_for_delegate without the expires_at comparison.
find_approval_for_delegate_no_expiry(col, from_acc, delegate, token_id, now) ==
    IF from_acc.owner \notin DOMAIN col.approvals_by_principal THEN None
    ELSE
      LET approvals == col.approvals_by_principal[from_acc.owner] IN
      IF approvals = <<>> THEN None
      ELSE
        LET approval_id == approvals[1] IN
        IF approval_id \notin DOMAIN col.approvals THEN None
        ELSE
          LET approval == col.approvals[approval_id] IN
          IF approval.to # delegate THEN None
          ELSE IF is_some(approval.token_ids)
                  /\ token_id \notin unwrap(approval.token_ids) THEN None
          ELSE IF is_some(approval.from_subaccount)
                  /\ unwrap_or(from_acc.subaccount, ZERO_SUBACCOUNT)
                       # unwrap(approval.from_subaccount) THEN None
          ELSE Some(approval_id)

\* find_approval_for_delegate without the from_subaccount comparison.
find_approval_for_delegate_no_subaccount(col, from_acc, delegate, token_id, now) ==
    IF from_acc.owner \notin DOMAIN col.approvals_by_principal THEN None
    ELSE
      LET approvals == col.approvals_by_principal[from_acc.owner] IN
      IF approvals = <<>> THEN None
      ELSE
        LET approval_id == approvals[1] IN
        IF approval_id \notin DOMAIN col.approvals THEN None
        ELSE
          LET approval == col.approvals[approval_id] IN
          IF approval.to # delegate THEN None
          ELSE IF is_some(approval.token_ids)
                  /\ token_id \notin unwrap(approval.token_ids) THEN None
          ELSE IF is_some(approval.expires_at)
                  /\ unwrap(approval.expires_at) < now THEN None
          ELSE Some(approval_id)

\* The loop body returns on every path, so only the first id of the owner's
\* list is ever examined.
find_approval_for_delegate(col, from_acc, delegate, token_id, now) ==
    IF from_acc.owner \notin DOMAIN col.approvals_by_principal THEN None
    ELSE
      LET approvals == col.approvals_by_principal[from_acc.owner] IN
      IF approvals = <<>> THEN None
      ELSE
        LET approval_id == approvals[1] IN
        IF approval_id \notin DOMAIN col.approvals THEN None
        ELSE
          LET approval == col.approvals[approval_id] IN
          IF approval.to # delegate THEN None
          ELSE IF is_some(approval.token_ids)
                  /\ token_id \notin unwrap(approval.token_ids) THEN None
          ELSE IF is_some(approval.expires_at)
                  /\ unwrap(approval.expires_at) < now THEN None
          ELSE IF is_some(approval.from_subaccount)
                  /\ unwrap_or(from_acc.subaccount, ZERO_SUBACCOUNT)
                       # unwrap(approval.from_subaccount) THEN None
          ELSE Some(approval_id)

\* add_transfer without the increment of transfer_id_seq.
add_transfer_same_id(col, transfer) ==
    LET id == col.transfer_id_seq IN
    [col EXCEPT !.transfers = MapInsert(col.transfers, <<transfer.created_at, id>>, transfer)]

\* Returns the aggregate after the insertion; the id handed out is the old
\* transfer_id_seq.
add_transfer(col, transfer) ==
    LET id == col.transfer_id_seq IN
    [col EXCEPT !.transfer_id_seq = id + 1,
                !.transfers = MapInsert(col.transfers, <<transfer.created_at, id>>, transfer)]

\* find_duplicate_transfer with the range's start excluded: no key of the
\* searched nanosecond is visited.
find_duplicate_transfer_start_excluded(col, t) ==
    LET hits == { k \in DOMAIN col.transfers :
                    /\ k[1] > t.created_at
                    /\ k[1] < t.created_at + 1
                    /\ col.transfers[k].from = t.from
                    /\ col.transfers[k].to = t.to
                    /\ col.transfers[k].token_ids = t.token_ids
                    /\ col.transfers[k].memo = t.memo }
    IN  IF hits = {} THEN None
        ELSE Some((CHOOSE k \in hits : \A j \in hits : k[2] <= j[2])[2])

\* The range (created_at, 0)..(created_at + 1, 0) of the ordered map, walked in
\* key order: the entry with the lowest id wins.  (created_at + 1 is guarded by
\* the caller, find_duplicate_panics.)
find_duplicate_transfer(col, t) ==
    LET hits == { k \in DOMAIN col.transfers :
                    /\ k[1] = t.created_at
                    /\ col.transfers[k].from = t.from
                    /\ col.transfers[k].to = t.to
                    /\ col.transfers[k].token_ids = t.token_ids
                    /\ col.transfers[k].memo = t.memo }
    IN  IF hits = {} THEN None
        ELSE Some((CHOOSE k \in hits : \A j \in hits : k[2] <= j[2])[2])

\* created_at + 1 overflows u64: a panic with overflow checks, and without
\* them the range start is greater than its end, which BTreeMap::range
\* rejects by panicking.
find_duplicate_panics(t) == add_overflows(t.created_at, 1)

\* gc's body without the retain over approvals_by_principal.
gc_with_split_stale_index(col, split_at, now) ==
    LET after == MapRetain(col.transfers, { k \in DOMAIN col.transfers : k[1] >= split_at })
        live  == { id \in DOMAIN col.approvals :
                    ~ ( is_some(col.approvals[id].expires_at)
                        /\ unwrap(col.approvals[id].expires_at) < now ) }
    IN  [col EXCEPT !.transfers = after,
                    !.approvals = MapRetain(col.approvals, live)]

\* gc's body keeping the half of the log before the split key: split_off's
\* result is dropped.
gc_with_split_keeps_older(col, split_at, now) ==
    LET before == MapRetain(col.transfers, { k \in DOMAIN col.transfers : k[1] < split_at })
        live  == { id \in DOMAIN col.approvals :
                    ~ ( is_some(col.approvals[id].expires_at)
                        /\ unwrap(col.approvals[id].expires_at) < now ) }
        kept  == MapRetain(col.approvals, live)
        idx   == col.approvals_by_principal
        pruned == [p \in DOMAIN idx |-> SelectSeq(idx[p], LAMBDA id : id \in live)]
    IN  [col EXCEPT !.transfers = before,
                    !.approvals = kept,
                    !.approvals_by_principal =
                        MapRetain(pruned, { p \in DOMAIN idx : pruned[p] # <<>> })]

\* The body of gc once the split key's timestamp is known.
gc_with_split(col, split_at, now) ==
    LET after == MapRetain(col.transfers, { k \in DOMAIN col.transfers : k[1] >= split_at })
        live  == { id \in DOMAIN col.approvals :
                    ~ ( is_some(col.approvals[id].expires_at)
                        /\ unwrap(col.approvals[id].expires_at) < now ) }
        kept  == MapRetain(col.approvals, live)
        idx   == col.approvals_by_principal
        pruned == [p \in DOMAIN idx |-> SelectSeq(idx[p], LAMBDA id : id \in live)]
    IN  [col EXCEPT !.transfers = after,
                    !.approvals = kept,
                    !.approvals_by_principal =
                        MapRetain(pruned, { p \in DOMAIN idx : pruned[p] # <<>> })]

\* gc splitting the log at now itself instead of a retention window before it.
gc_split_at_now(col, now, checks) ==
    Outcome(gc_with_split(col, now, now), OkUnit)

\* gc(now): now - TX_DEDUPLICATION_WINDOW panics or wraps when now is smaller
\* than the window, as the build decides.
gc(col, now, checks) ==
    IF sub_overflows(now, TX_DEDUPLICATION_WINDOW)
    THEN IF checks
         THEN Outcome(col, Trap("attempt to subtract with overflow"))
         ELSE Outcome(gc_with_split(col, wrapping_sub(now, TX_DEDUPLICATION_WINDOW), now), OkUnit)
    ELSE Outcome(gc_with_split(col, now - TX_DEDUPLICATION_WINDOW, now), OkUnit)

(***************************************************************************)
(* init (lib.rs:34-58)                                                     *)
(***************************************************************************)
\* The descriptive metadata (name, symbol, description, image, royalty
\* recipient) is served unchanged by getters and is left out; royalties is
\* read only by init's range check.
init(col, args) ==
    IF args.royalties > 10000
    THEN Outcome(col, Trap("royalties must be between 0 and 10000"))
    ELSE IF is_some(args.supply_cap) /\ unwrap(args.supply_cap) = 0
    THEN Outcome(col, Trap("supply cap must be greater than 0"))
    ELSE Outcome([Collection_default EXCEPT !.supply_cap = args.supply_cap,
                                            !.authority = Some(args.authority)],
                 OkUnit)

(***************************************************************************)
(* mint_token (update.rs:23-62)                                            *)
(***************************************************************************)
\* base64 STANDARD_NO_PAD decoding of the image strings the model mints with
\* (the codec is the external base64 crate): None is a decoding error.
b64_decode(image) ==
    CASE image = "QUFBQQ" -> Some(<<65, 65, 65, 65>>)
      [] image = "QkJC"   -> Some(<<66, 66, 66>>)
      [] image = "Q*"     -> None

\* c.tokens.len() == c.supply_cap.unwrap_or(usize::MAX): with no cap the
\* comparison is against usize::MAX, a count the registry never holds.
supply_cap_reached(col) ==
    /\ is_some(col.supply_cap)
    /\ Cardinality(DOMAIN col.tokens) = unwrap(col.supply_cap)

\* mint_token with the supply cap compared by > instead of ==.
mint_token_cap_off_by_one(col, caller, args) ==
    IF is_none(col.authority)
    THEN Outcome(col, ErrString("can't mint because authority is not set"))
    ELSE IF unwrap(col.authority) # caller
    THEN Outcome(col, ErrString("caller is not authority"))
    ELSE IF is_some(col.supply_cap)
            /\ Cardinality(DOMAIN col.tokens) > unwrap(col.supply_cap)
    THEN Outcome(col, ErrString("supply cap reached"))
    ELSE IF args.id \in DOMAIN col.tokens
    THEN Outcome(col, ErrString("token with this ID already exists"))
    ELSE IF is_none(b64_decode(args.image))
    THEN Outcome(col, ErrString("failed to decode base64 image"))
    ELSE Outcome(add_token(col, [ id    |-> args.id,
                                  name  |-> args.name,
                                  image |-> unwrap(b64_decode(args.image)),
                                  owner |-> to_canonical(args.owner) ]),
                 Ok(args.id))

\* mint_token with the contains_key check ahead of the supply cap check.
mint_token_id_before_cap(col, caller, args) ==
    IF is_none(col.authority)
    THEN Outcome(col, ErrString("can't mint because authority is not set"))
    ELSE IF unwrap(col.authority) # caller
    THEN Outcome(col, ErrString("caller is not authority"))
    ELSE IF args.id \in DOMAIN col.tokens
    THEN Outcome(col, ErrString("token with this ID already exists"))
    ELSE IF supply_cap_reached(col)
    THEN Outcome(col, ErrString("supply cap reached"))
    ELSE IF is_none(b64_decode(args.image))
    THEN Outcome(col, ErrString("failed to decode base64 image"))
    ELSE Outcome(add_token(col, [ id    |-> args.id,
                                  name  |-> args.name,
                                  image |-> unwrap(b64_decode(args.image)),
                                  owner |-> to_canonical(args.owner) ]),
                 Ok(args.id))

\* mint_token without the contains_key check: the insert replaces the item.
mint_token_no_id_check(col, caller, args) ==
    IF is_none(col.authority)
    THEN Outcome(col, ErrString("can't mint because authority is not set"))
    ELSE IF unwrap(col.authority) # caller
    THEN Outcome(col, ErrString("caller is not authority"))
    ELSE IF supply_cap_reached(col)
    THEN Outcome(col, ErrString("supply cap reached"))
    ELSE IF is_none(b64_decode(args.image))
    THEN Outcome(col, ErrString("failed to decode base64 image"))
    ELSE Outcome(add_token(col, [ id    |-> args.id,
                                  name  |-> args.name,
                                  image |-> unwrap(b64_decode(args.image)),
                                  owner |-> to_canonical(args.owner) ]),
                 Ok(args.id))

mint_token(col, caller, args) ==
    IF is_none(col.authority)
    THEN Outcome(col, ErrString("can't mint because authority is not set"))
    ELSE IF unwrap(col.authority) # caller
    THEN Outcome(col, ErrString("caller is not authority"))
    ELSE IF supply_cap_reached(col)
    THEN Outcome(col, ErrString("supply cap reached"))
    ELSE IF args.id \in DOMAIN col.tokens
    THEN Outcome(col, ErrString("token with this ID already exists"))
    ELSE IF is_none(b64_decode(args.image))
    THEN Outcome(col, ErrString("failed to decode base64 image"))
    ELSE Outcome(add_token(col, [ id    |-> args.id,
                                  name  |-> args.name,
                                  image |-> unwrap(b64_decode(args.image)),
                                  owner |-> to_canonical(args.owner) ]),
                 Ok(args.id))

(***************************************************************************)
(* icrc7_approve (update.rs:84-126)                                        *)
(***************************************************************************)
icrc7_approve(col, caller, now, checks, args) ==
    LET from == caller
        ids  == unwrap_or(args.token_ids, {})
        unauthorized_ids == { id \in ids : col.tokens[id].owner.owner # from }
    IN
    IF from = anonymous
    THEN Outcome(col, GenericError(3, "anonymous calls are not supported"))
    ELSE IF \E id \in ids : id \notin DOMAIN col.tokens
    THEN Outcome(col, Trap("c.tokens[id]: key not found"))  \* HashMap's Index panics
    ELSE IF unauthorized_ids # {}
    THEN Outcome(col, Unauthorized(unauthorized_ids))
    ELSE IF is_some(args.created_at)
            /\ add_overflows(unwrap(args.created_at), PERMITTED_TIME_DRIFT) /\ checks
    THEN Outcome(col, Trap("attempt to add with overflow"))
    ELSE IF is_some(args.created_at)
            /\ now > wrapping_add(unwrap(args.created_at), PERMITTED_TIME_DRIFT)
    THEN Outcome(col, TooOld)
    ELSE Outcome(add_approval(col, [ from            |-> from,
                                     from_subaccount |-> args.from_subaccount,
                                     to              |-> args.to,
                                     token_ids       |-> args.token_ids,
                                     expires_at      |-> args.expires_at,
                                     memo            |-> args.memo ]),
                 Ok(col.approval_id_seq))

(***************************************************************************)
(* icrc7_transfer (update.rs:148-261)                                      *)
(***************************************************************************)
\* transfer_single refusing a recipient that already holds an item: a check
\* that reads what earlier items of the batch have written.
transfer_single_holding_limit(col, id, from, args, dry_run, caller, now) ==
    IF id \notin DOMAIN col.tokens
    THEN Outcome(col, GenericError(1, "token does not exist"))
    ELSE IF from.owner # caller
            /\ is_none(find_approval_for_delegate(col, from, caller, id, now))
    THEN Outcome(col, Unauthorized({id}))
    ELSE IF from = args.to
    THEN Outcome(col, GenericError(2, "can't transfer to self"))
    ELSE IF \E other \in DOMAIN col.tokens : col.tokens[other].owner = to_canonical(args.to)
    THEN Outcome(col, GenericError(5, "recipient already holds an item"))
    ELSE IF ~dry_run
    THEN Outcome([col EXCEPT !.tokens[id].owner = to_canonical(args.to)], OkUnit)
    ELSE Outcome(col, OkUnit)

\* transfer_single writing the new owner in the dry pass too.
transfer_single_always_applies(col, id, from, args, dry_run, caller, now) ==
    IF id \notin DOMAIN col.tokens
    THEN Outcome(col, GenericError(1, "token does not exist"))
    ELSE IF from.owner # caller
            /\ is_none(find_approval_for_delegate(col, from, caller, id, now))
    THEN Outcome(col, Unauthorized({id}))
    ELSE IF from = args.to
    THEN Outcome(col, GenericError(2, "can't transfer to self"))
    ELSE Outcome([col EXCEPT !.tokens[id].owner = to_canonical(args.to)], OkUnit)

transfer_single(col, id, from, args, dry_run, caller, now) ==
    IF id \notin DOMAIN col.tokens
    THEN Outcome(col, GenericError(1, "token does not exist"))
    ELSE IF from.owner # caller
            /\ is_none(find_approval_for_delegate(col, from, caller, id, now))
    THEN Outcome(col, Unauthorized({id}))
    ELSE IF from = args.to
    THEN Outcome(col, GenericError(2, "can't transfer to self"))
    ELSE IF ~dry_run
    THEN Outcome([col EXCEPT !.tokens[id].owner = to_canonical(args.to)], OkUnit)
    ELSE Outcome(col, OkUnit)

\* The closure apply(dry): transfer_single over the ids in iteration order,
\* collecting the errors.  Returns [c, errs].
RECURSIVE apply(_, _, _, _, _, _, _)
apply(col, order, from, args, dry, caller, now) ==
    IF order = <<>> THEN [c |-> col, errs |-> <<>>]
    ELSE LET one  == transfer_single(col, Head(order), from, args, dry, caller, now)
             rest == apply(one.c, Tail(order), from, args, dry, caller, now)
         IN  [c    |-> rest.c,
              errs |-> IF one.res.kind = "Ok" THEN rest.errs ELSE <<one.res>> \o rest.errs]

\* The orders in which a HashSet may hand out its elements.
RECURSIVE iteration_orders(_)
iteration_orders(S) ==
    IF S = {} THEN {<<>>}
    ELSE UNION { { <<x>> \o rest : rest \in iteration_orders(S \ {x}) } : x \in S }

\* icrc7_transfer returning the first per-item error in non-atomic mode too.
icrc7_transfer_in_order_errors_surface(col, caller, now, checks, args, order) ==
    LET created    == args.created_at_time
        from       == to_canonical(unwrap_or(args.from, from_owner(caller)))
        transfer   == [ from       |-> from,
                        to         |-> args.to,
                        token_ids  |-> args.token_ids,
                        memo       |-> args.memo,
                        created_at |-> unwrap_or(created, now) ]
        dry_run    == unwrap_or(args.is_atomic, TRUE)
        first      == apply(col, order, from, args, dry_run, caller, now)
        second     == apply(first.c, order, from, args, FALSE, caller, now)
    IN
    IF args.token_ids = {}
    THEN Outcome(col, GenericError(4, "token_ids must not be empty"))
    ELSE IF is_some(created) /\ add_overflows(unwrap(created), PERMITTED_TIME_DRIFT) /\ checks
    THEN Outcome(col, Trap("attempt to add with overflow"))
    ELSE IF is_some(created) /\ now > wrapping_add(unwrap(created), PERMITTED_TIME_DRIFT)
    THEN Outcome(col, TooOld)
    ELSE IF is_some(created) /\ add_overflows(now, PERMITTED_TIME_DRIFT) /\ checks
    THEN Outcome(col, Trap("attempt to add with overflow"))
    ELSE IF is_some(created) /\ wrapping_add(now, PERMITTED_TIME_DRIFT) < unwrap(created)
    THEN Outcome(col, CreatedInFuture(now))
    ELSE IF find_duplicate_panics(transfer)
    THEN Outcome(col, Trap("find_duplicate_transfer: range end overflows"))
    ELSE IF is_some(find_duplicate_transfer(col, transfer))
    THEN Outcome(col, Duplicate(unwrap(find_duplicate_transfer(col, transfer))))
    ELSE IF first.errs # <<>>
    THEN Outcome(first.c, Head(first.errs))
    ELSE IF dry_run /\ second.errs # <<>>
    THEN Outcome(col, Trap("dry run should have caught all errors"))
    ELSE Outcome(add_transfer(IF dry_run THEN second.c ELSE first.c, transfer),
                 Ok(col.transfer_id_seq))

\* icrc7_transfer once the HashSet's iteration order is fixed.
icrc7_transfer_in_order(col, caller, now, checks, args, order) ==
    LET created    == args.created_at_time
        from       == to_canonical(unwrap_or(args.from, from_owner(caller)))
        transfer   == [ from       |-> from,
                        to         |-> args.to,
                        token_ids  |-> args.token_ids,
                        memo       |-> args.memo,
                        created_at |-> unwrap_or(created, now) ]
        dry_run    == unwrap_or(args.is_atomic, TRUE)
        first      == apply(col, order, from, args, dry_run, caller, now)
        second     == apply(first.c, order, from, args, FALSE, caller, now)
    IN
    IF args.token_ids = {}
    THEN Outcome(col, GenericError(4, "token_ids must not be empty"))
    ELSE IF is_some(created) /\ add_overflows(unwrap(created), PERMITTED_TIME_DRIFT) /\ checks
    THEN Outcome(col, Trap("attempt to add with overflow"))
    ELSE IF is_some(created) /\ now > wrapping_add(unwrap(created), PERMITTED_TIME_DRIFT)
    THEN Outcome(col, TooOld)
    ELSE IF is_some(created) /\ add_overflows(now, PERMITTED_TIME_DRIFT) /\ checks
    THEN Outcome(col, Trap("attempt to add with overflow"))
    ELSE IF is_some(created) /\ wrapping_add(now, PERMITTED_TIME_DRIFT) < unwrap(created)
    THEN Outcome(col, CreatedInFuture(now))
    ELSE IF find_duplicate_panics(transfer)
    THEN Outcome(col, Trap("find_duplicate_transfer: range end overflows"))
    ELSE IF is_some(find_duplicate_transfer(col, transfer))
    THEN Outcome(col, Duplicate(unwrap(find_duplicate_transfer(col, transfer))))
    ELSE IF unwrap_or(args.is_atomic, TRUE) /\ first.errs # <<>>
    THEN Outcome(first.c, Head(first.errs))
    ELSE IF dry_run /\ second.errs # <<>>
    THEN Outcome(col, Trap("dry run should have caught all errors"))
    ELSE Outcome(add_transfer(IF dry_run THEN second.c ELSE first.c, transfer),
                 Ok(col.transfer_id_seq))

\* Every outcome icrc7_transfer can have: one per iteration order of token_ids.
icrc7_transfer(col, caller, now, checks, args) ==
    { icrc7_transfer_in_order(col, caller, now, checks, args, order) :
        order \in iteration_orders(args.token_ids) }

(***************************************************************************)
(* Read accessors (lib.rs:95-132)                                          *)
(***************************************************************************)
icrc7_total_supply(col) == Cardinality(DOMAIN col.tokens)

icrc7_owner_of(col, id) ==
    IF id \in DOMAIN col.tokens THEN Some(col.tokens[id].owner) ELSE None

\* icrc7_balance_of comparing with the account as given.
icrc7_balance_of_as_given(col, owner) ==
    Cardinality({ id \in DOMAIN col.tokens : col.tokens[id].owner = owner })

icrc7_balance_of(col, owner) ==
    Cardinality({ id \in DOMAIN col.tokens : col.tokens[id].owner = to_canonical(owner) })

\* The Vec is collected in the HashMap's iteration order: every order of the
\* matching ids is a possible reply.
icrc7_tokens_of(col, owner) ==
    iteration_orders({ id \in DOMAIN col.tokens : col.tokens[id].owner = to_canonical(owner) })

(***************************************************************************)
(* The calls the host delivers, one at a time                              *)
(***************************************************************************)
MaxApprovals == 1

MaxTransfers == 1

Called(op, o) ==
    /\ c' = o.c
    /\ last' = [op |-> op, res |-> o.res]
    /\ UNCHANGED <<time, overflow_checks>>

\* init runs on the freshly constructed aggregate.
call_init(argset) ==
    /\ is_none(c.authority)
    /\ \E args \in argset : Called("init", init(c, args))

call_mint_token(calls) ==
    \E call \in calls :
        LET o == mint_token(c, call[1], call[2]) IN
        /\ o.res.kind \in {"Ok", "Err"}
        /\ Called("mint_token", o)

call_icrc7_approve(calls) ==
    \E call \in calls :
        LET o == icrc7_approve(c, call[1], time, overflow_checks, call[2]) IN
        /\ o.c.approval_id_seq <= MaxApprovals
        /\ Called("icrc7_approve", o)

call_icrc7_transfer(calls) ==
    \E call \in calls :
        \E o \in icrc7_transfer(c, call[1], time, overflow_checks, call[2]) :
            /\ o.c.transfer_id_seq <= MaxTransfers
            /\ Called("icrc7_transfer", o)

call_gc(nows) ==
    \E now \in nows :
        LET o == gc(c, now, overflow_checks) IN
        /\ o.res.kind \in {"Ok", "Trap"}
        /\ Called("gc", o)

\* The host clock never runs backwards.
Tick(clock) ==
    /\ \E t \in clock : t > time /\ time' = t
    /\ UNCHANGED <<c, overflow_checks, last>>

(***************************************************************************)
(* The values calls are made with                                          *)
(***************************************************************************)
Principals == {"alice", "bob"}

Callers == Principals \cup {anonymous}

Subaccounts == {None, Some(ZERO_SUBACCOUNT), Some(1)}

Accounts == { Account(p, s) : p \in Principals, s \in Subaccounts }

TokenIDs == {1, 2}

\* 25 hours after the epoch, past the retention window.
NOW == 1500

InitArg(cap) == [royalties |-> 1000, supply_cap |-> cap, authority |-> "alice"]

MintArg(id, name, image, owner) ==
    [id |-> id, name |-> name, image |-> image, owner |-> owner]

ApproveArg(sub, to, ids, exp, created) ==
    [from_subaccount |-> sub, to |-> to, token_ids |-> ids,
     expires_at |-> exp, memo |-> None, created_at |-> created]

TransferArg(from, to, ids, memo, created, atomic) ==
    [from |-> from, to |-> to, token_ids |-> ids, memo |-> memo,
     created_at_time |-> created, is_atomic |-> atomic]

(***************************************************************************)
(* Spec: minting, approving and transferring at a fixed host time          *)
(***************************************************************************)
LedgerMints ==
    { MintArg(1, "NFT-1", "QUFBQQ", Account("alice", None)),
      MintArg(2, "NFT-2", "QkJC", Account("alice", None)),
      MintArg(2, "NFT-2", "QkJC", Account("alice", Some(1))) }

\* alice delegates to bob: everything, item 1 only, sub-identifier 1 only,
\* or already expired; bob delegates item 1 to alice.
LedgerApproves ==
    { <<"alice", ApproveArg(None, "bob", None, None, None)>>,
      <<"alice", ApproveArg(None, "bob", Some({1}), None, None)>>,
      <<"alice", ApproveArg(Some(1), "bob", None, None, None)>>,
      <<"alice", ApproveArg(None, "bob", None, Some(NOW - 1), None)>>,
      <<"bob", ApproveArg(None, "alice", Some({1}), None, None)>>,
      <<anonymous, ApproveArg(None, "bob", None, None, None)>> }

LedgerTransfers ==
    { <<caller, TransferArg(from, Account("bob", None), ids, None, None, atomic)>> :
        caller \in Principals,
        from \in {None, Some(Account("alice", None))},
        ids \in {{1}, {1, 2}},
        atomic \in {None, Some(FALSE)} }

Init ==
    /\ c = init(Collection_default, InitArg(None)).c
    /\ time = NOW
    /\ overflow_checks \in BOOLEAN
    /\ last = [op |-> "init", res |-> OkUnit]

Next ==
    \/ call_mint_token({<<"alice", args>> : args \in LedgerMints})
    \/ call_icrc7_approve(LedgerApproves)
    \/ call_icrc7_transfer(LedgerTransfers)
    \/ call_gc({NOW})

Spec == Init /\ [][Next]_vars

(***************************************************************************)
(* SpecMint: construction, init and minting                                *)
(***************************************************************************)
MintInits ==
    { [royalties |-> r, supply_cap |-> cap, authority |-> "alice"] :
        r \in {1000, 10001}, cap \in {None, Some(0), Some(1), Some(2)} }

MintCalls ==
    { <<caller, MintArg(id, p[1], p[2], owner)>> :
        caller \in Principals,
        id \in TokenIDs,
        p \in {<<"NFT-1", "QUFBQQ">>, <<"NFT-2", "QkJC">>, <<"NFT-2", "Q*">>},
        owner \in {Account("alice", None), Account("bob", Some(1))} }

InitMint ==
    /\ c = Collection_default
    /\ time = NOW
    /\ overflow_checks \in BOOLEAN
    /\ last = [op |-> "default", res |-> OkUnit]

NextMint ==
    \/ call_init(MintInits)
    \/ call_mint_token(MintCalls)
    \/ call_icrc7_approve({<<"alice", ApproveArg(None, "bob", None, None, None)>>})
    \/ call_icrc7_transfer({<<"alice", TransferArg(None, Account("bob", None), {1}, None, None, None)>>})

SpecMint == InitMint /\ [][NextMint]_vars

(***************************************************************************)
(* SpecTime: timestamps, duplicates and the sweeper                        *)
(***************************************************************************)
\* The host times calls arrive at.
Clock == {NOW, NOW + 1, NOW + 2, NOW + 3, NOW + TX_DEDUPLICATION_WINDOW + 1}

\* The `now` values gc is run with: below the window, at it, around NOW and
\* more than a window after it.
GcNows ==
    {0, TX_DEDUPLICATION_WINDOW - 1, TX_DEDUPLICATION_WINDOW, NOW, NOW + 2,
     NOW + TX_DEDUPLICATION_WINDOW, NOW + TX_DEDUPLICATION_WINDOW + 1}

TimeApproves ==
    { <<"alice", ApproveArg(None, "bob", None, exp, None)>> :
        exp \in {None, Some(0), Some(NOW + 1)} }

TimeTransfers ==
    { <<"alice", TransferArg(None, to, {1}, memo, created, None)>> :
        to \in {Account("bob", None)},
        memo \in {None, Some("memo1")},
        created \in {None, Some(NOW), Some(NOW + 1)} }

InitTime ==
    /\ c = mint_token(init(Collection_default, InitArg(None)).c, "alice",
                      MintArg(1, "NFT-1", "QUFBQQ", Account("alice", None))).c
    /\ time = NOW
    /\ overflow_checks \in BOOLEAN
    /\ last = [op |-> "mint_token", res |-> Ok(1)]

NextTime ==
    \/ Tick(Clock)
    \/ call_icrc7_approve(TimeApproves)
    \/ call_icrc7_transfer(TimeTransfers)
    \/ call_gc(GcNows)

SpecTime == InitTime /\ [][NextTime]_vars

(***************************************************************************)
(* SpecSweep: the clock, transfers and gc run as the host schedules it,    *)
(* with a `now` at least the retention window and at most the host time    *)
(***************************************************************************)
SweepNows == Clock \cup {TX_DEDUPLICATION_WINDOW, NOW - 1}

NextSweep ==
    \/ Tick(Clock)
    \/ call_icrc7_transfer(TimeTransfers)
    \/ call_gc({ s \in SweepNows : TX_DEDUPLICATION_WINDOW <= s /\ s <= time })

SpecSweep == InitTime /\ [][NextSweep]_vars

(***************************************************************************)
(* Vocabulary of the claims                                                *)
(***************************************************************************)
\* The account a transfer request is made from: the explicit one, else the
\* caller's default account, in canonical form.
ResolvedFrom(caller, args) == to_canonical(unwrap_or(args.from, from_owner(caller)))

IsAtomic(args) == args.is_atomic \in {None, Some(TRUE)}

\* delegate holds a usable approval granted by the identity of owner_acc:
\* delegate matches, not expired, item scope absent or containing x,
\* sub-identifier scope absent or equal to the owner's canonical one.
UsableApproval(col, owner_acc, delegate, x, now) ==
    \E id \in DOMAIN col.approvals :
        LET a == col.approvals[id] IN
        /\ a.from = owner_acc.owner
        /\ a.to = delegate
        /\ ~ (is_some(a.expires_at) /\ unwrap(a.expires_at) < now)
        /\ is_none(a.token_ids) \/ x \in unwrap(a.token_ids)
        /\ \/ is_none(a.from_subaccount)
           \/ unwrap(a.from_subaccount) = unwrap(to_canonical(owner_acc).subaccount)

\* caller may move item x: it is the owner's identity or holds a usable
\* approval of the owner.
MayMove(col, caller, x, now) ==
    \/ caller = col.tokens[x].owner.owner
    \/ UsableApproval(col, col.tokens[x].owner, caller, x, now)

\* The requested items that fail per-item validation: the item does not
\* exist, the caller is not authorized for it, or to equals from.
FailsValidation(col, caller, args, x, now) ==
    \/ x \notin DOMAIN col.tokens
    \/ ~ MayMove(col, caller, x, now)
    \/ to_canonical(args.to) = ResolvedFrom(caller, args)

Moved(before, after) ==
    { x \in DOMAIN before.tokens : after.tokens[x].owner # before.tokens[x].owner }

\* The transfer requests the claims are tried on in every reachable state.
ProbeTransfers ==
    { <<caller, TransferArg(from, to, ids, None, None, atomic)>> :
        caller \in Principals,
        from \in {None, Some(Account("alice", None)), Some(Account("alice", Some(1)))},
        to \in {Account("bob", None), Account("alice", None), Account("alice", Some(ZERO_SUBACCOUNT))},
        ids \in {{1}, {1, 2}},
        atomic \in {None, Some(TRUE), Some(FALSE)} }

TransferOutcomes(call) == icrc7_transfer(c, call[1], time, overflow_checks, call[2])

(***************************************************************************)
(* C1  Authorization                                                       *)
(***************************************************************************)
\* C1: in any icrc7_transfer call an item changes owner only if the caller is
\* the identity of the item's current owner or holds a usable approval
\* granted by the current owner's identity, whatever `from` the caller gives.
C1_OnlyAuthorizedMove ==
    \A call \in ProbeTransfers : \A o \in TransferOutcomes(call) :
        \A x \in Moved(c, o.c) : MayMove(c, call[1], x, time)

(***************************************************************************)
(* C2  Atomic transfer                                                     *)
(***************************************************************************)
\* C2: with is_atomic absent or true, if a requested item fails validation the
\* call returns an error, no item changes owner and no Transfer is logged; if
\* the call returns Ok, every requested item is owned by canonical(to).
C2_AtomicAllOrNothing ==
    \A call \in ProbeTransfers : \A o \in TransferOutcomes(call) :
        LET caller == call[1]
            args   == call[2]
        IN  IsAtomic(args) =>
              /\ (\E x \in args.token_ids : FailsValidation(c, caller, args, x, time))
                    => /\ o.res.kind # "Ok"
                       /\ o.c.tokens = c.tokens
                       /\ o.c.transfers = c.transfers
              /\ o.res.kind = "Ok"
                    => \A x \in args.token_ids :
                         /\ x \in DOMAIN o.c.tokens
                         /\ o.c.tokens[x].owner = to_canonical(args.to)

\* The same statement with "fails validation" read as "transfer_single
\* returns an error": the dry pass and the apply pass themselves are
\* all-or-nothing.
AtomicAllOrNothingOnCodeChecks ==
    \A call \in ProbeTransfers : \A o \in TransferOutcomes(call) :
        LET caller == call[1]
            args   == call[2]
            from   == ResolvedFrom(caller, args)
        IN  IsAtomic(args) =>
              /\ (\E x \in args.token_ids :
                     transfer_single(c, x, from, args, TRUE, caller, time).res.kind # "Ok")
                    => /\ o.res.kind # "Ok"
                       /\ o.c = c
              /\ o.res.kind = "Ok"
                    => \A x \in args.token_ids :
                         /\ x \in DOMAIN o.c.tokens
                         /\ o.c.tokens[x].owner = to_canonical(args.to)

(***************************************************************************)
(* C4  Partial application                                                 *)
(***************************************************************************)
\* C4: with is_atomic = false, a request that passes the pre-checks returns
\* Ok, and afterwards exactly the requested items that pass validation are
\* owned by canonical(to); every other item keeps its previous owner.
C4_PartialApplication ==
    \A call \in ProbeTransfers : \A o \in TransferOutcomes(call) :
        LET caller == call[1]
            args   == call[2]
        IN  ( /\ args.is_atomic = Some(FALSE)
              /\ args.token_ids # {}
              /\ o.res.kind \notin {"TooOld", "CreatedInFuture", "Duplicate"} )
            => /\ o.res.kind = "Ok"
               /\ \A x \in DOMAIN c.tokens :
                    o.c.tokens[x].owner =
                       IF x \in args.token_ids /\ ~ FailsValidation(c, caller, args, x, time)
                       THEN to_canonical(args.to)
                       ELSE c.tokens[x].owner

(***************************************************************************)
(* C5  No self-transfer                                                    *)
(***************************************************************************)
\* C5: a transfer request whose `to` equals the resolved `from`, compared in
\* canonical form, is rejected in atomic and in non-atomic mode: it never
\* returns Ok and never records a Transfer.
C5_NoSelfTransfer ==
    \A call \in ProbeTransfers : \A o \in TransferOutcomes(call) :
        to_canonical(call[2].to) = ResolvedFrom(call[1], call[2])
            => /\ o.res.kind # "Ok"
               /\ o.c.transfers = c.transfers

(***************************************************************************)
(* C10  Approve with an item-id restriction                                *)
(***************************************************************************)
ProbeApproves ==
    { <<caller, ApproveArg(None, "bob", Some(ids), None, None)>> :
        caller \in Principals, ids \in {{1}, {2}, {1, 2}} }

\* C10: if the caller does not own every referenced item (an id that is not
\* in the registry included), approve returns Unauthorized listing exactly
\* the offending ids and stores no approval.
C10_ApproveUnownedIsUnauthorized ==
    \A call \in ProbeApproves :
        LET caller    == call[1]
            ids       == unwrap(call[2].token_ids)
            offending == { x \in ids : \/ x \notin DOMAIN c.tokens
                                         \/ c.tokens[x].owner.owner # caller }
            o         == icrc7_approve(c, caller, time, overflow_checks, call[2])
        IN  offending # {} => /\ o.res = Unauthorized(offending)
                              /\ o.c = c

(***************************************************************************)
(* C3  Idempotency                                                         *)
(***************************************************************************)
\* The requests identical to a logged transfer: same resolved from, to, item
\* set and memo, with the record's created_at supplied.
RetryCalls(rec) ==
    { call \in { <<caller, TransferArg(from, rec.to, rec.token_ids, rec.memo,
                                       Some(rec.created_at), atomic)>> :
                   caller \in Principals,
                   from \in {None, Some(rec.from)},
                   atomic \in {None, Some(FALSE)} } :
        ResolvedFrom(call[1], call[2]) = rec.from }

\* C3 as claimed: an identical request submitted again at any host time at
\* which the first is within the retention window (created_at + 24 h >= now)
\* returns Duplicate{duplicate_of: k}, k the id the first was given, and
\* changes nothing.
C3_DuplicateWithinRetentionWindow ==
    \A k \in DOMAIN c.transfers : \A call \in RetryCalls(c.transfers[k]) :
        k[1] + TX_DEDUPLICATION_WINDOW >= time
            => \A o \in TransferOutcomes(call) :
                 /\ o.res = Duplicate(k[2])
                 /\ o.c = c

\* C3 amended: an identical request submitted again while the first's record
\* is in the Transfer Log and the host time passes the time check
\* (created_at - drift <= now <= created_at + drift) returns
\* Duplicate{duplicate_of: k} and changes nothing.
C3_DuplicateWithinDrift ==
    \A k \in DOMAIN c.transfers : \A call \in RetryCalls(c.transfers[k]) :
        ( /\ time <= k[1] + PERMITTED_TIME_DRIFT
          /\ k[1] <= time + PERMITTED_TIME_DRIFT )
            => \A o \in TransferOutcomes(call) :
                 /\ o.res = Duplicate(k[2])
                 /\ o.c = c

\* A second submission has just been answered Duplicate of a logged transfer
\* whose created_at passes the time check.
C3_Witness ==
    /\ last.op = "icrc7_transfer"
    /\ last.res.kind = "Duplicate"
    /\ \E k \in DOMAIN c.transfers :
         /\ last.res = Duplicate(k[2])
         /\ time <= k[1] + PERMITTED_TIME_DRIFT
         /\ k[1] <= time + PERMITTED_TIME_DRIFT
         /\ \E call \in RetryCalls(c.transfers[k]) :
              \E o \in TransferOutcomes(call) : o.res = last.res

(***************************************************************************)
(* C6, C7  The sweeper                                                     *)
(***************************************************************************)
\* C6: for every now, also below the retention window, gc(now) removes exactly
\* the Transfer Log entries with created_at < now - window, keeps the others
\* unchanged, and does not abort.
C6_SweepKeepsRecentTransfers ==
    \A now \in GcNows :
        LET o == gc(c, now, overflow_checks) IN
        /\ o.res.kind # "Trap"
        /\ DOMAIN o.c.transfers =
             { k \in DOMAIN c.transfers : k[1] >= now - TX_DEDUPLICATION_WINDOW }
        /\ \A k \in DOMAIN o.c.transfers : o.c.transfers[k] = c.transfers[k]

\* C7: gc(now) removes every approval whose expires_at is set and < now and
\* keeps, unchanged, every approval whose expires_at is absent or >= now.
C7_SweepRemovesExpiredApprovals ==
    \A now \in GcNows :
        LET o == gc(c, now, overflow_checks) IN
        /\ DOMAIN o.c.approvals =
             { id \in DOMAIN c.approvals :
                 \/ is_none(c.approvals[id].expires_at)
                 \/ unwrap(c.approvals[id].expires_at) >= now }
        /\ \A id \in DOMAIN o.c.approvals : o.c.approvals[id] = c.approvals[id]

(***************************************************************************)
(* C8  Supply cap                                                          *)
(***************************************************************************)
AtCapacity ==
    /\ is_some(c.authority)
    /\ is_some(c.supply_cap)
    /\ Cardinality(DOMAIN c.tokens) = unwrap(c.supply_cap)

CapacityError == ErrString("supply cap reached")

\* C8 as claimed: with supply cap N the number of items is at most N, and
\* every mint attempted while the count equals N returns the capacity error
\* and adds no item.
C8_SupplyCapAnyCaller ==
    /\ is_some(c.supply_cap) => Cardinality(DOMAIN c.tokens) <= unwrap(c.supply_cap)
    /\ \A call \in MintCalls :
         AtCapacity =>
            LET o == mint_token(c, call[1], call[2]) IN
            /\ o.res = CapacityError
            /\ o.c.tokens = c.tokens

\* C8 amended: with supply cap N the number of items is at most N, and every
\* mint attempted by the authority while the count equals N returns the
\* capacity error; no mint attempted at capacity adds an item.
C8_SupplyCap ==
    /\ is_some(c.supply_cap) => Cardinality(DOMAIN c.tokens) <= unwrap(c.supply_cap)
    /\ \A call \in MintCalls :
         AtCapacity =>
            LET o == mint_token(c, call[1], call[2]) IN
            /\ Some(call[1]) = c.authority => o.res = CapacityError
            /\ o.c.tokens = c.tokens

\* The authority has just been refused, at capacity, a mint of a fresh id
\* with a decodable payload.
C8_Witness ==
    /\ AtCapacity
    /\ last.op = "mint_token"
    /\ last.res = CapacityError
    /\ \E call \in MintCalls :
         /\ Some(call[1]) = c.authority
         /\ call[2].id \notin DOMAIN c.tokens
         /\ is_some(b64_decode(call[2].image))
         /\ mint_token(c, call[1], call[2]).res = last.res

(***************************************************************************)
(* C9  Mint validates before it mutates                                    *)
(***************************************************************************)
\* C9: mint fails when no authority is configured or the caller is not the
\* authority; every failing mint leaves the whole Collection unchanged; a
\* mint of an existing id fails and leaves that item as it was.
C9_MintValidateBeforeMutate ==
    \A call \in MintCalls :
        LET o == mint_token(c, call[1], call[2]) IN
        /\ (is_none(c.authority) \/ c.authority # Some(call[1])) => o.res.kind = "Err"
        /\ o.res.kind # "Ok" => o.c = c
        /\ call[2].id \in DOMAIN c.tokens
              => /\ o.res.kind = "Err"
                 /\ o.c.tokens[call[2].id] = c.tokens[call[2].id]

\* The authority has just been refused a mint of an existing id under another
\* name, payload and owner, and the item is as it was.
C9_Witness ==
    /\ last.op = "mint_token"
    /\ last.res = ErrString("token with this ID already exists")
    /\ \E call \in MintCalls :
         /\ Some(call[1]) = c.authority
         /\ call[2].id \in DOMAIN c.tokens
         /\ c.tokens[call[2].id].name # call[2].name
         /\ c.tokens[call[2].id].owner # to_canonical(call[2].owner)
         /\ is_some(b64_decode(call[2].image))
         /\ c.tokens[call[2].id].image # unwrap(b64_decode(call[2].image))
         /\ mint_token(c, call[1], call[2]).res = last.res

(***************************************************************************)
(* C11  Delegated transfer                                                 *)
(***************************************************************************)
ApprovalsOf(col, P) == { id \in DOMAIN col.approvals : col.approvals[id].from = P }

\* The only approval stored for P names delegate D, with no item restriction,
\* no sub-identifier restriction and no expiry.
OnlyUnrestrictedApproval(col, P, D) ==
    /\ Cardinality(ApprovalsOf(col, P)) = 1
    /\ \A id \in ApprovalsOf(col, P) :
         /\ col.approvals[id].to = D
         /\ is_none(col.approvals[id].token_ids)
         /\ is_none(col.approvals[id].from_subaccount)
         /\ is_none(col.approvals[id].expires_at)

\* The accounts delegated transfers are addressed to.
Recipients == {Account("bob", None), Account("alice", None), Account("alice", Some(1))}

\* transfer({X}, from = A, to = Q) called by a delegate D of the owner A of X,
\* Q not A, with no memo, no created_at and no is_atomic.
DelegatedCalls ==
    { call \in { <<D, TransferArg(Some(A), Q, {X}, None, None, None)>> :
                   D \in Principals, A \in Accounts, Q \in Recipients, X \in TokenIDs } :
        LET X == CHOOSE x \in call[2].token_ids : TRUE IN
        /\ X \in DOMAIN c.tokens
        /\ to_canonical(unwrap(call[2].from)) = c.tokens[X].owner
        /\ call[1] # c.tokens[X].owner.owner
        /\ to_canonical(call[2].to) # c.tokens[X].owner }

\* The Transfer Log holds a record equal to the one the request would make
\* at the present host time.
LoggedAtPresent(call) ==
    \E k \in DOMAIN c.transfers :
        /\ k[1] = time
        /\ c.transfers[k] = [ from       |-> ResolvedFrom(call[1], call[2]),
                              to         |-> call[2].to,
                              token_ids  |-> call[2].token_ids,
                              memo       |-> call[2].memo,
                              created_at |-> time ]

DelegatedTransferOn(calls) ==
    \A call \in calls :
        LET X == CHOOSE x \in call[2].token_ids : TRUE
            P == c.tokens[X].owner.owner
        IN  \A o \in TransferOutcomes(call) :
              /\ OnlyUnrestrictedApproval(c, P, call[1])
                    => /\ o.res.kind = "Ok"
                       /\ o.c.tokens[X].owner = to_canonical(call[2].to)
              /\ ApprovalsOf(c, P) = {}
                    => /\ o.res = Unauthorized({X})
                       /\ o.c = c

\* C11 as claimed: with the only approval of P naming D unrestricted, the
\* transfer of X from its owner account A to Q by D returns Ok and X is owned
\* by canonical(Q); with no approval of P stored it returns Unauthorized for
\* X and changes nothing.
C11_DelegatedTransfer == DelegatedTransferOn(DelegatedCalls)

\* C11 amended: the same, for requests of which the Transfer Log holds no
\* identical record made at the present host time.
C11_DelegatedTransferNotLogged ==
    DelegatedTransferOn({ call \in DelegatedCalls : ~ LoggedAtPresent(call) })

\* alice has just approved bob without restrictions, and bob's transfer of
\* alice's item 1 to bob's account is accepted and moves the item.
C11_Witness ==
    /\ last.op = "icrc7_approve"
    /\ last.res.kind = "Ok"
    /\ \E call \in DelegatedCalls :
         LET X == CHOOSE x \in call[2].token_ids : TRUE IN
         /\ ~ LoggedAtPresent(call)
         /\ OnlyUnrestrictedApproval(c, c.tokens[X].owner.owner, call[1])
         /\ \E o \in TransferOutcomes(call) :
              /\ o.res.kind = "Ok"
              /\ o.c.tokens[X].owner = to_canonical(call[2].to)
              /\ o.c.tokens[X].owner # c.tokens[X].owner

(***************************************************************************)
(* C12  Expired approvals                                                  *)
(***************************************************************************)
Expired(a, now) == is_some(a.expires_at) /\ unwrap(a.expires_at) < now

\* Transfers of item 1 requested by an identity other than that of `from`.
ExpiryCalls ==
    { call \in { <<D, TransferArg(Some(A), Q, {1}, None, None, atomic)>> :
                   D \in Principals,
                   A \in {Account("alice", None), Account("bob", None)},
                   Q \in {Account("bob", None), Account("alice", Some(1))},
                   atomic \in {None, Some(FALSE)} } :
        unwrap(call[2].from).owner # call[1] }

\* Every approval stored from P to D has expires_at < now.
AllExpired(col, P, D, now) ==
    \A id \in ApprovalsOf(col, P) :
        col.approvals[id].to = D => Expired(col.approvals[id], now)

\* C12: at host time now, when every approval from the identity of `from` to
\* the caller has expires_at < now, swept or not, a delegated transfer moves
\* no item and in atomic mode does not return Ok; and approve accepts an
\* expires_at that is already past.
C12_ExpiredNeverAuthorizes ==
    /\ \A call \in ExpiryCalls :
         AllExpired(c, unwrap(call[2].from).owner, call[1], time)
            => \A o \in TransferOutcomes(call) :
                 /\ Moved(c, o.c) = {}
                 /\ IsAtomic(call[2]) => o.res.kind # "Ok"
    /\ \A exp \in {0, time - 1} :
         icrc7_approve(c, "alice", time, overflow_checks,
                       ApproveArg(None, "bob", None, Some(exp), None)).res.kind = "Ok"

\* alice's approval of bob was usable when stored, has expired since and is
\* still stored; bob's transfer of alice's item 1 is refused as Unauthorized.
C12_Witness ==
    /\ 1 \in DOMAIN c.tokens
    /\ c.tokens[1].owner = from_owner("alice")
    /\ \E id \in ApprovalsOf(c, "alice") :
         /\ c.approvals[id].to = "bob"
         /\ Expired(c.approvals[id], time)
         /\ ~ Expired(c.approvals[id], NOW)
    /\ \A o \in TransferOutcomes(<<"bob", TransferArg(Some(Account("alice", None)),
                                    Account("bob", None), {1}, None, None, None)>>) :
         o.res = Unauthorized({1})

(***************************************************************************)
(* C13  Sub-identifier scope of approvals                                  *)
(***************************************************************************)
\* The only approval stored for P names delegate D and is restricted to
\* sub-identifier S, with no item restriction and no expiry.
OnlyScopedApproval(col, P, D, S) ==
    /\ Cardinality(ApprovalsOf(col, P)) = 1
    /\ \A id \in ApprovalsOf(col, P) :
         /\ col.approvals[id].to = D
         /\ col.approvals[id].from_subaccount = Some(S)
         /\ is_none(col.approvals[id].token_ids)
         /\ is_none(col.approvals[id].expires_at)

\* transfer({X}, from = A, to = Q) called by another identity than A's, X an
\* item of A's identity, Q not A.
ScopedCalls ==
    { call \in { <<D, TransferArg(Some(A), Q, {X}, None, None, None)>> :
                   D \in Principals, A \in Accounts, Q \in Recipients, X \in TokenIDs } :
        LET X == CHOOSE x \in call[2].token_ids : TRUE
            A == unwrap(call[2].from)
        IN  /\ X \in DOMAIN c.tokens
            /\ c.tokens[X].owner.owner = A.owner
            /\ call[1] # A.owner
            /\ to_canonical(call[2].to) # to_canonical(A) }

SubaccountScopeOn(calls) ==
    \A call \in calls : \A S \in {ZERO_SUBACCOUNT, 1} :
        LET X == CHOOSE x \in call[2].token_ids : TRUE
            A == to_canonical(unwrap(call[2].from))
        IN  OnlyScopedApproval(c, A.owner, call[1], S)
              => \A o \in TransferOutcomes(call) :
                   /\ A.subaccount # Some(S)
                        => /\ o.res = Unauthorized({X})
                           /\ o.c = c
                   /\ (A.subaccount = Some(S) /\ c.tokens[X].owner = A)
                        => /\ o.res.kind = "Ok"
                           /\ o.c.tokens[X].owner = to_canonical(call[2].to)

\* C13 as claimed: with an approval restricted to sub-identifier S, the
\* delegate's transfer from the owner identity under another sub-identifier
\* (the all-zero default included) is rejected as Unauthorized, and the one
\* from sub-identifier S succeeds.
C13_SubaccountScope == SubaccountScopeOn(ScopedCalls)

\* C13 amended: the same, for requests of which the Transfer Log holds no
\* identical record made at the present host time.
C13_SubaccountScopeNotLogged ==
    SubaccountScopeOn({ call \in ScopedCalls : ~ LoggedAtPresent(call) })

\* alice has just approved bob for sub-identifier 1 only; bob's transfer of
\* item 2 from (alice, 1) is accepted and the one of item 1 from alice's
\* default account is refused as Unauthorized.
C13_Witness ==
    /\ last.op = "icrc7_approve"
    /\ last.res.kind = "Ok"
    /\ OnlyScopedApproval(c, "alice", "bob", 1)
    /\ {1, 2} \subseteq DOMAIN c.tokens
    /\ c.tokens[1].owner = Account("alice", Some(ZERO_SUBACCOUNT))
    /\ c.tokens[2].owner = Account("alice", Some(1))
    /\ \A o \in TransferOutcomes(<<"bob", TransferArg(Some(Account("alice", Some(1))),
                                    Account("bob", None), {2}, None, None, None)>>) :
         o.res.kind = "Ok" /\ o.c.tokens[2].owner = from_owner("bob")
    /\ \A o \in TransferOutcomes(<<"bob", TransferArg(Some(Account("alice", None)),
                                    Account("bob", None), {1}, None, None, None)>>) :
         o.res = Unauthorized({1})

(***************************************************************************)
(* C14  Transfer time window                                               *)
(***************************************************************************)
\* created_at values around the present host time, and the largest u64.
CreatedAtProbes(now) ==
    { now - PERMITTED_TIME_DRIFT - 1, now - PERMITTED_TIME_DRIFT, now,
      now + PERMITTED_TIME_DRIFT, now + PERMITTED_TIME_DRIFT + 1, U64_MAX }

TimedCall(created) ==
    <<"alice", TransferArg(None, Account("bob", None), {1}, Some("timed"), created, None)>>

\* The time check of a request with created_at supplied, for the given
\* created_at values.
TimeWindowOn(createds) ==
    \A created_at \in createds : \A o \in TransferOutcomes(TimedCall(Some(created_at))) :
        IF time > created_at + PERMITTED_TIME_DRIFT
        THEN o.res = TooOld
        ELSE IF time + PERMITTED_TIME_DRIFT < created_at
        THEN o.res = CreatedInFuture(time)
        ELSE o.res.kind \notin {"TooOld", "CreatedInFuture", "Trap"}

\* A request with created_at omitted is never rejected for time, and the
\* record it logs has created_at = now.
OmittedCreatedAt ==
    \A o \in TransferOutcomes(TimedCall(None)) :
        /\ o.res.kind \notin {"TooOld", "CreatedInFuture", "Trap"}
        /\ o.res.kind = "Ok"
             => \E k \in DOMAIN o.c.transfers \ DOMAIN c.transfers :
                  /\ k[1] = time
                  /\ o.c.transfers[k].created_at = time

\* C14: with created_at supplied a non-empty request is rejected TooOld iff
\* now > created_at + drift, otherwise CreatedInFuture{ledger_time: now} iff
\* now + drift < created_at, and otherwise passes the time check, both
\* boundaries included; with created_at omitted it is never rejected for
\* time and the record's created_at is now.
C14_TimeWindow ==
    /\ TimeWindowOn(CreatedAtProbes(time))
    /\ OmittedCreatedAt

\* The time check is as claimed for every created_at whose sum with the
\* drift fits in a u64.
TimeWindowWithoutOverflow ==
    /\ TimeWindowOn({ t \in CreatedAtProbes(time) : ~ add_overflows(t, PERMITTED_TIME_DRIFT) })
    /\ OmittedCreatedAt

(***************************************************************************)
(* C15  Canonical storage                                                  *)
(***************************************************************************)
IsCanonical(a) == is_some(a.subaccount)

\* C15: every Account stored in the aggregate is in canonical form: the owner
\* of every item, and the from and the to of every Transfer Log record.
C15_CanonicalStorage ==
    /\ \A id \in DOMAIN c.tokens : IsCanonical(c.tokens[id].owner)
    /\ \A k \in DOMAIN c.transfers :
         /\ IsCanonical(c.transfers[k].from)
         /\ IsCanonical(c.transfers[k].to)

\* The owner of every item and the from of every Transfer Log record are
\* canonical.
CanonicalOwnersAndFrom ==
    /\ \A id \in DOMAIN c.tokens : IsCanonical(c.tokens[id].owner)
    /\ \A k \in DOMAIN c.transfers : IsCanonical(c.transfers[k].from)

(***************************************************************************)
(* C16  The approval index                                                 *)
(***************************************************************************)
Elements(seq) == { seq[i] : i \in DOMAIN seq }

IdTransfers ==
    TimeTransfers \cup
    { <<"bob", TransferArg(Some(Account("alice", None)), Account("bob", None), {ids},
                           None, None, None)>> : ids \in TokenIDs }

IdApproves ==
    TimeApproves \cup
    { <<anonymous, ApproveArg(None, "bob", None, None, None)>>,
      <<"alice", ApproveArg(None, "bob", None, None, Some(NOW - PERMITTED_TIME_DRIFT - 1))>> }

Counters(col) == <<col.approval_id_seq, col.transfer_id_seq>>

\* C17: an accepted transfer (approval) is given the present value of its
\* counter as id and advances that counter by one; a rejected call, a mint
\* and a sweep leave both counters as they are; every stored id is below its
\* counter, so that no id is handed out again after the sweeper removed its
\* entry; Transfer Log keys (created_at, id) have distinct ids and carry the
\* record's created_at.
C17_MonotonicIds ==
    /\ \A call \in IdTransfers : \A o \in TransferOutcomes(call) :
         IF o.res.kind = "Ok"
         THEN /\ o.res = Ok(c.transfer_id_seq)
              /\ Counters(o.c) = <<c.approval_id_seq, c.transfer_id_seq + 1>>
              /\ DOMAIN o.c.transfers =
                   DOMAIN c.transfers \cup {<<unwrap_or(call[2].created_at_time, time),
                                              c.transfer_id_seq>>}
         ELSE Counters(o.c) = Counters(c)
    /\ \A call \in IdApproves :
         LET o == icrc7_approve(c, call[1], time, overflow_checks, call[2]) IN
         IF o.res.kind = "Ok"
         THEN /\ o.res = Ok(c.approval_id_seq)
              /\ Counters(o.c) = <<c.approval_id_seq + 1, c.transfer_id_seq>>
              /\ DOMAIN o.c.approvals = DOMAIN c.approvals \cup {c.approval_id_seq}
         ELSE Counters(o.c) = Counters(c)
    /\ \A now \in GcNows : Counters(gc(c, now, overflow_checks).c) = Counters(c)
    /\ \A call \in MintCalls : Counters(mint_token(c, call[1], call[2]).c) = Counters(c)
    /\ \A id \in DOMAIN c.approvals : id < c.approval_id_seq
    /\ \A k \in DOMAIN c.transfers :
         /\ k[2] < c.transfer_id_seq
         /\ c.transfers[k].created_at = k[1]
         /\ \A j \in DOMAIN c.transfers : j[2] = k[2] => j = k

\* The sweeper has just removed transfer 0 and approval 0; the next accepted
\* transfer and the next accepted approval are given id 1.
C17_Witness ==
    /\ last.op = "gc"
    /\ c.transfers = EmptyMap /\ c.transfer_id_seq = 1
    /\ c.approvals = EmptyMap /\ c.approval_id_seq = 1
    /\ \E call \in IdTransfers : \E o \in TransferOutcomes(call) : o.res = Ok(1)
    /\ \E call \in IdApproves :
         icrc7_approve(c, call[1], time, overflow_checks, call[2]).res = Ok(1)

(***************************************************************************)
(* C18  Approve rejections                                                 *)
(***************************************************************************)
\* Approve requests without item restriction, by every caller.
ApproveProbes(createds) ==
    { <<caller, ApproveArg(sub, "bob", None, None, created)>> :
        caller \in Callers, sub \in {None, Some(1)}, created \in createds }

ApproveRejectionsOn(calls) ==
    \A call \in calls :
        LET o       == icrc7_approve(c, call[1], time, overflow_checks, call[2])
            created == call[2].created_at
            new     == DOMAIN o.c.approvals \ DOMAIN c.approvals
        IN
        /\ call[1] = anonymous => o.res.kind \notin {"Ok", "Trap"}
        /\ (call[1] # anonymous /\ is_some(created))
              => (o.res = TooOld <=> time > unwrap(created) + PERMITTED_TIME_DRIFT)
        /\ o.res.kind # "Ok" => o.c = c
        /\ o.res.kind = "Ok"
              => /\ Cardinality(new) = 1
                 /\ \A id \in new : o.c.approvals[id].from = call[1]
                 /\ \A id \in DOMAIN c.approvals : o.c.approvals[id] = c.approvals[id]

\* C18: approve by the anonymous identity is rejected; approve with
\* created_at supplied is rejected TooOld iff now > created_at + 2 minutes;
\* a rejected approve changes neither the registry, the index nor the
\* counter; an accepted approve adds exactly one approval, from the caller.
C18_ApproveRejections ==
    ApproveRejectionsOn(ApproveProbes({None} \cup { Some(t) : t \in CreatedAtProbes(time) }))

\* The same for every created_at whose sum with the drift fits in a u64.
ApproveRejectionsWithoutOverflow ==
    ApproveRejectionsOn(ApproveProbes({None} \cup
        { Some(t) : t \in { t \in CreatedAtProbes(time) :
                              ~ add_overflows(t, PERMITTED_TIME_DRIFT) } }))

(***************************************************************************)
(* C19  Read accessors                                                     *)
(***************************************************************************)
CanonicalAccounts == { to_canonical(a) : a \in Accounts }

RECURSIVE SumOfBalances(_, _)
SumOfBalances(col, accounts) ==
    IF accounts = {} THEN 0
    ELSE LET a == CHOOSE x \in accounts : TRUE
         IN  icrc7_balance_of(col, a) + SumOfBalances(col, accounts \ {a})

\* C19: for every account A, icrc7_balance_of(A) is the number of ids in
\* every reply of icrc7_tokens_of(A), which lists ids without repetition;
\* both agree for A with an absent and with the all-zero sub-identifier;
\* icrc7_owner_of(X) is canonical, is canonical(owner) after a mint of X to
\* owner, and after a transfer is canonical(to) for every item the transfer
\* moved and as before for every other item; the balances of the distinct
\* canonical accounts sum to icrc7_total_supply.
C19_AccessorsConsistent ==
    /\ \A A \in Accounts : \A ids \in icrc7_tokens_of(c, A) :
         /\ Len(ids) = icrc7_balance_of(c, A)
         /\ Cardinality(Elements(ids)) = Len(ids)
         /\ \A X \in Elements(ids) : icrc7_owner_of(c, X) = Some(to_canonical(A))
    /\ \A P \in Principals :
         /\ icrc7_balance_of(c, Account(P, None))
              = icrc7_balance_of(c, Account(P, Some(ZERO_SUBACCOUNT)))
         /\ icrc7_tokens_of(c, Account(P, None))
              = icrc7_tokens_of(c, Account(P, Some(ZERO_SUBACCOUNT)))
    /\ \A X \in TokenIDs :
         /\ is_some(icrc7_owner_of(c, X)) <=> X \in DOMAIN c.tokens
         /\ is_some(icrc7_owner_of(c, X)) => unwrap(icrc7_owner_of(c, X)) \in CanonicalAccounts
    /\ \A call \in MintCalls :
         LET o == mint_token(c, call[1], call[2]) IN
         o.res.kind = "Ok"
            => icrc7_owner_of(o.c, call[2].id) = Some(to_canonical(call[2].owner))
    /\ \A call \in LedgerTransfers : \A o \in TransferOutcomes(call) : \A X \in TokenIDs :
         \/ icrc7_owner_of(o.c, X) = icrc7_owner_of(c, X)
         \/ /\ X \in call[2].token_ids
            /\ o.res.kind = "Ok"
            /\ icrc7_owner_of(o.c, X) = Some(to_canonical(call[2].to))
    /\ SumOfBalances(c, CanonicalAccounts) = icrc7_total_supply(c)

\* A transfer has just been accepted: item 1 is with bob's default account,
\* item 2 with (bob, 1), and the accessors report one item each.
C19_Witness ==
    /\ last.op = "icrc7_transfer"
    /\ last.res.kind = "Ok"
    /\ icrc7_owner_of(c, 1) = Some(Account("bob", Some(ZERO_SUBACCOUNT)))
    /\ icrc7_owner_of(c, 2) = Some(Account("bob", Some(1)))
    /\ icrc7_balance_of(c, Account("bob", None)) = 1
    /\ icrc7_tokens_of(c, Account("bob", Some(1))) = {<<2>>}
    /\ icrc7_balance_of(c, Account("alice", None)) = 0
    /\ icrc7_total_supply(c) = 2

(***************************************************************************)
(* C20  Order of mint's checks                                             *)
(***************************************************************************)
\* The preconditions of a mint that do not hold, numbered in the order
\* claimed: 1 authority configured, 2 caller is the authority, 3 item count
\* below the supply cap, 4 id not present, 5 payload decodes.
FailedMintChecks(col, caller, args) ==
    (IF is_none(col.authority) THEN {1} ELSE {})
    \cup (IF col.authority # Some(caller) THEN {2} ELSE {})
    \cup (IF is_some(col.supply_cap)
             /\ Cardinality(DOMAIN col.tokens) >= unwrap(col.supply_cap) THEN {3} ELSE {})
    \cup (IF args.id \in DOMAIN col.tokens THEN {4} ELSE {})
    \cup (IF is_none(b64_decode(args.image)) THEN {5} ELSE {})

MintError(check) ==
    CASE check = 1 -> ErrString("can't mint because authority is not set")
      [] check = 2 -> ErrString("caller is not authority")
      [] check = 3 -> CapacityError
      [] check = 4 -> ErrString("token with this ID already exists")
      [] check = 5 -> ErrString("failed to decode base64 image")

\* C20: a mint of which several preconditions fail returns the error of the
\* earliest failing one, and a mint of which none fails returns Ok.
C20_MintCheckOrder ==
    \A call \in MintCalls :
        LET failed == FailedMintChecks(c, call[1], call[2])
            o      == mint_token(c, call[1], call[2])
        IN  IF failed = {} THEN o.res = Ok(call[2].id)
            ELSE o.res = MintError(CHOOSE n \in failed : \A m \in failed : n <= m)

\* At full capacity the authority has just been refused a mint; minting an
\* existing id with an undecodable payload, the authority gets the capacity
\* error and another caller the authorization error.
C20_Witness ==
    /\ AtCapacity
    /\ last.op = "mint_token"
    /\ last.res = CapacityError
    /\ \E call \in MintCalls :
         /\ FailedMintChecks(c, call[1], call[2]) = {3, 4, 5}
         /\ mint_token(c, call[1], call[2]).res = MintError(3)
    /\ \E call \in MintCalls :
         /\ FailedMintChecks(c, call[1], call[2]) = {2, 3, 4, 5}
         /\ mint_token(c, call[1], call[2]).res = MintError(2)

(***************************************************************************)
(* C21  Rejected transfers change nothing                                  *)
(***************************************************************************)
\* Requests that fail each pre-check and each per-item check, and requests
\* that pass: by the owner with `from` omitted and by bob out of alice's
\* account.
RejectionProbes ==
    { <<who[1], TransferArg(who[2], to, ids, None, created, atomic)>> :
        who \in {<<"alice", None>>, <<"bob", Some(Account("alice", None))>>},
        to \in {Account("bob", None), Account("alice", Some(ZERO_SUBACCOUNT))},
        ids \in {{}, {1}, {1, 2}},
        created \in {None, Some(NOW), Some(time - PERMITTED_TIME_DRIFT - 1),
                     Some(time + PERMITTED_TIME_DRIFT + 1)},
        atomic \in {None, Some(FALSE)} }

\* C21: an icrc7_transfer call that does not return Ok leaves the whole
\* Collection as it was: item owners, Transfer Log, counters, approvals and
\* index.
C21_RejectedTransferChangesNothing ==
    \A call \in RejectionProbes : \A o \in TransferOutcomes(call) :
        o.res.kind # "Ok" => o.c = c

\* A transfer has just been rejected TooOld with one transfer logged, and in
\* this state requests are rejected for each reason: empty item set, TooOld,
\* CreatedInFuture, Duplicate, and a per-item failure after a valid item.
C21_Witness ==
    /\ last.op = "icrc7_transfer"
    /\ last.res = TooOld
    /\ c.transfer_id_seq = 1
    /\ \A res \in {GenericError(4, "token_ids must not be empty"), TooOld,
                   CreatedInFuture(time), Duplicate(0)} :
         \E call \in RejectionProbes : \E o \in TransferOutcomes(call) : o.res = res
    /\ \E call \in RejectionProbes : \E o \in TransferOutcomes(call) :
         /\ call[2].token_ids = {1, 2}
         /\ o.res = GenericError(1, "token does not exist")

(***************************************************************************)
(* C22  The Transfer Log is faithful to ownership                          *)
(***************************************************************************)
\* C22: every item that changes owner in a transfer call was owned, before
\* the call, by the resolved canonical `from` account that the call's
\* Transfer record carries.
C22_MovedOutOfFrom ==
    \A call \in LedgerTransfers : \A o \in TransferOutcomes(call) :
        \A X \in Moved(c, o.c) :
            /\ c.tokens[X].owner = ResolvedFrom(call[1], call[2])
            /\ \E k \in DOMAIN o.c.transfers \ DOMAIN c.transfers :
                 o.c.transfers[k].from = c.tokens[X].owner

\* Every item that changes owner in a transfer call is named in a Transfer
\* record which that call appends.
MovedItemsAreLogged ==
    \A call \in LedgerTransfers : \A o \in TransferOutcomes(call) :
        \A X \in Moved(c, o.c) :
            \E k \in DOMAIN o.c.transfers \ DOMAIN c.transfers :
                /\ X \in o.c.transfers[k].token_ids
                /\ o.c.transfers[k].from = ResolvedFrom(call[1], call[2])

(***************************************************************************)
(* C23  Duplicate means already applied                                    *)
(***************************************************************************)
\* A first call that is accepted with id k, followed at once by a call that
\* is answered Duplicate{duplicate_of: k}: after the first call every item
\* of the second request's item set is with the second request's `to`.
DuplicateMeansAppliedOn(firsts) ==
    \A first \in firsts : \A o1 \in TransferOutcomes(first) :
        o1.res.kind = "Ok"
          => \A second \in LedgerTransfers :
               \A o2 \in icrc7_transfer(o1.c, second[1], time, overflow_checks, second[2]) :
                 o2.res = Duplicate(c.transfer_id_seq)
                   => \A X \in second[2].token_ids :
                        /\ X \in DOMAIN o1.c.tokens
                        /\ o1.c.tokens[X].owner = to_canonical(second[2].to)

\* C23: whenever icrc7_transfer returns Duplicate{duplicate_of: k}, the call
\* that was given id k moved every item of the request's item set to the
\* request's `to`, in atomic and in non-atomic mode.
C23_DuplicateMeansApplied == DuplicateMeansAppliedOn(LedgerTransfers)

\* The same when the call that was given id k was atomic.
DuplicateOfAtomicMeansApplied ==
    DuplicateMeansAppliedOn({ call \in LedgerTransfers : IsAtomic(call[2]) })

(***************************************************************************)
(* C24  Non-atomic recording                                               *)
(***************************************************************************)
NonAtomicProbes == { call \in RejectionProbes : call[2].is_atomic = Some(FALSE) }

\* The request passes the pre-checks: the item set is not empty, a supplied
\* created_at is within the drift of the host time, and the Transfer Log
\* holds no record of the same accounts, item set, memo and created_at.
PassesPreChecks(call) ==
    LET args    == call[2]
        created == unwrap_or(args.created_at_time, time)
    IN  /\ args.token_ids # {}
        /\ time <= created + PERMITTED_TIME_DRIFT
        /\ created <= time + PERMITTED_TIME_DRIFT
        /\ ~ \E k \in DOMAIN c.transfers :
               /\ k[1] = created
               /\ to_canonical(c.transfers[k].from) = ResolvedFrom(call[1], args)
               /\ to_canonical(c.transfers[k].to) = to_canonical(args.to)
               /\ c.transfers[k].token_ids = args.token_ids
               /\ c.transfers[k].memo = args.memo

\* C24: with is_atomic = false, a request that passes the pre-checks returns
\* Ok with an id no logged transfer has, and appends exactly one Transfer
\* record, whose item set is the full requested set, whichever of the items
\* changed owner.
C24_NonAtomicRecording ==
    \A call \in NonAtomicProbes :
        PassesPreChecks(call)
          => \A o \in TransferOutcomes(call) :
               LET id  == c.transfer_id_seq
                   key == <<unwrap_or(call[2].created_at_time, time), id>>
               IN  /\ o.res = Ok(id)
                   /\ \A k \in DOMAIN c.transfers : k[2] # id
                   /\ DOMAIN o.c.transfers = DOMAIN c.transfers \cup {key}
                   /\ key \notin DOMAIN c.transfers
                   /\ o.c.transfers[key].token_ids = call[2].token_ids
                   /\ o.c.transfers[key].from = ResolvedFrom(call[1], call[2])
                   /\ o.c.transfers[key].memo = call[2].memo
                   /\ \A k \in DOMAIN c.transfers : o.c.transfers[k] = c.transfers[k]

\* In the present state non-atomic requests are accepted and recorded that
\* move all, one of two, and none of their items.
C24_Witness ==
    /\ \E call \in NonAtomicProbes : \E o \in TransferOutcomes(call) :
         /\ PassesPreChecks(call) /\ o.res.kind = "Ok"
         /\ call[2].token_ids = {1} /\ Moved(c, o.c) = {1}
    /\ \E call \in NonAtomicProbes : \E o \in TransferOutcomes(call) :
         /\ PassesPreChecks(call) /\ o.res.kind = "Ok"
         /\ call[2].token_ids = {1, 2} /\ Moved(c, o.c) = {1}
    /\ \E call \in NonAtomicProbes : \E o \in TransferOutcomes(call) :
         /\ PassesPreChecks(call) /\ o.res.kind = "Ok"
         /\ call[2].token_ids = {1} /\ Moved(c, o.c) = {}

(***************************************************************************)
(* C25  First-candidate approval lookup                                    *)
(***************************************************************************)
\* The approval passes the four checks for the delegate, the item and the
\* owner account at time now.
PassesApprovalChecks(a, from_acc, delegate, x, now) ==
    /\ a.to = delegate
    /\ is_none(a.token_ids) \/ x \in unwrap(a.token_ids)
    /\ ~ Expired(a, now)
    /\ is_none(a.from_subaccount) \/ a.from_subaccount = to_canonical(from_acc).subaccount

\* The present aggregate and the aggregate after one more approve.
AfterOneMoreApprove ==
    {c} \cup { icrc7_approve(c, call[1], time, overflow_checks, call[2]).c :
                 call \in LedgerApproves }

AtomicProbes == { call \in LedgerTransfers : IsAtomic(call[2]) }

DryPass(call, order) ==
    apply(c, order, ResolvedFrom(call[1], call[2]), call[2], TRUE, call[1], time)

ApplyPass(call, order) ==
    apply(DryPass(call, order).c, order, ResolvedFrom(call[1], call[2]), call[2],
          FALSE, call[1], time)

\* C26: in atomic mode, for every request and every iteration order, when the
\* dry pass reports no error the apply pass over the same items reports none
\* either and leaves every requested item with canonical(to); no call ends in
\* the assertion "dry run should have caught all errors".
C26_ApplyNeverFailsAfterDryPass ==
    \A call \in AtomicProbes :
        /\ \A order \in iteration_orders(call[2].token_ids) :
             /\ DryPass(call, order).c = c
             /\ DryPass(call, order).errs = <<>>
                  => /\ ApplyPass(call, order).errs = <<>>
                     /\ \A X \in call[2].token_ids :
                          ApplyPass(call, order).c.tokens[X].owner = to_canonical(call[2].to)
        /\ \A o \in TransferOutcomes(call) :
             o.res # Trap("dry run should have caught all errors")

\* Items 1 and 2 are minted, and an atomic request for both passes the dry
\* pass and the apply pass, which moves the two of them.
C26_Witness ==
    /\ last.op = "mint_token"
    /\ DOMAIN c.tokens = {1, 2}
    /\ \E call \in AtomicProbes : \E order \in iteration_orders(call[2].token_ids) :
         /\ call[2].token_ids = {1, 2}
         /\ DryPass(call, order).errs = <<>>
         /\ ApplyPass(call, order).errs = <<>>
         /\ Moved(c, ApplyPass(call, order).c) = {1, 2}

(***************************************************************************)
(* C27  Duplicate detection and account spelling                           *)
(***************************************************************************)
\* The ways of writing an account: its sub-identifier as given, and, for the
\* default account, absent or all-zero.
Spellings(a) ==
    { x \in { Account(a.owner, sub) : sub \in Subaccounts } :
        to_canonical(x) = to_canonical(a) }

\* The requests that repeat a logged transfer up to the spelling of the
\* accounts named.
RespelledCalls(rec, tos) ==
    { <<rec.from.owner, TransferArg(Some(from), to, rec.token_ids, rec.memo,
                                    Some(rec.created_at), None)>> :
        from \in Spellings(rec.from), to \in tos }

RespelledIsDuplicateOn(respell_to) ==
    \A k \in DOMAIN c.transfers :
        LET rec == c.transfers[k]
            tos == IF respell_to THEN Spellings(rec.to) ELSE {rec.to}
        IN  \A call \in RespelledCalls(rec, tos) :
              ( /\ time <= k[1] + PERMITTED_TIME_DRIFT
                /\ k[1] <= time + PERMITTED_TIME_DRIFT )
                  => \A o \in TransferOutcomes(call) : o.res = Duplicate(k[2])

\* C27: a request that differs from a committed one only in writing the
\* sub-identifier of `to`, or of an explicit `from`, as absent instead of
\* all-zero (or the reverse) is rejected as Duplicate of it.
C27_DuplicateUpToSpelling == RespelledIsDuplicateOn(TRUE)

\* The same for requests that respell only `from`.
DuplicateUpToSpellingOfFrom == RespelledIsDuplicateOn(FALSE)

(***************************************************************************)
(* C28  Items are immutable but for their owner                            *)
(***************************************************************************)
\* C28: in every step, every item of the registry stays in it with its id,
\* name and payload, and keeps its owner unless the step is an icrc7_transfer
\* call that returns Ok; so mints of other ids, approves, rejected transfers
\* and sweeps change no item, and the item count never decreases.
C28_ItemImmutability ==
    [][ /\ \A id \in DOMAIN c.tokens :
             /\ id \in DOMAIN c'.tokens
             /\ c'.tokens[id].id = c.tokens[id].id
             /\ c'.tokens[id].name = c.tokens[id].name
             /\ c'.tokens[id].image = c.tokens[id].image
             /\ c'.tokens[id].owner # c.tokens[id].owner
                  => (last'.op = "icrc7_transfer" /\ last'.res.kind = "Ok")
        /\ Cardinality(DOMAIN c'.tokens) >= Cardinality(DOMAIN c.tokens)
        /\ \A id \in DOMAIN c'.tokens \ DOMAIN c.tokens :
             last'.op = "mint_token" /\ last'.res = Ok(id)
      ]_vars

\* Item 1, minted to alice as NFT-1, has just been transferred to bob and
\* keeps its name and payload beside item 2.
C28_Witness ==
    /\ last.op = "icrc7_transfer"
    /\ last.res.kind = "Ok"
    /\ DOMAIN c.tokens = {1, 2}
    /\ c.tokens[1] = [id |-> 1, name |-> "NFT-1", image |-> <<65, 65, 65, 65>>,
                      owner |-> from_owner("bob")]
    /\ c.approval_id_seq = 1

(***************************************************************************)
(* C29  Sweeping never re-opens a duplicate                                *)
(***************************************************************************)
\* Requests with a supplied created_at, of the shape the driven transfers have.
PastRequests ==
    { <<"alice", TransferArg(None, Account("bob", None), {1}, memo, Some(T), None)>> :
        memo \in {None, Some("memo1")}, T \in Clock }

\* A request whose created_at is more than the drift behind the host clock is
\* answered TooOld whatever the log holds; the clock never running backwards,
\* it is answered so at every later time.
StaleIsTooOld ==
    \A call \in PastRequests :
        unwrap(call[2].created_at_time) + PERMITTED_TIME_DRIFT < time
            => \A o \in TransferOutcomes(call) : o.res = TooOld /\ o.c = c

\* C29 as claimed: under a non-decreasing clock and sweeps gc(s) with
\* window <= s <= host time, a request identical to a committed one is never
\* accepted again: it is answered Duplicate while the record is in the log
\* and TooOld once it has been pruned.
C29_DuplicateWhileInLog ==
    [][ /\ time' >= time
        /\ StaleIsTooOld'
        /\ \A k \in DOMAIN c.transfers :
             \A call \in RetryCalls(c.transfers[k]) :
                \A o \in TransferOutcomes(call)' :
                   /\ o.res = IF k \in DOMAIN c'.transfers THEN Duplicate(k[2]) ELSE TooOld
                   /\ o.c = c'
      ]_vars

\* C29 amended: under a non-decreasing clock and sweeps gc(s) with
\* window <= s <= host time, a request identical to a committed one is never
\* accepted again: it is answered Duplicate{duplicate_of: k} while the host
\* time is at most created_at + drift, during which the record cannot be
\* pruned, and TooOld at every later time, whether or not the record is still
\* in the log.
C29_NeverAcceptedAgain ==
    [][ /\ time' >= time
        /\ StaleIsTooOld'
        /\ \A k \in DOMAIN c.transfers :
             /\ k \in DOMAIN c'.transfers \/ k[1] + PERMITTED_TIME_DRIFT < time'
             /\ \A call \in RetryCalls(c.transfers[k]) :
                  \A o \in TransferOutcomes(call)' :
                     /\ o.res = IF time' <= k[1] + PERMITTED_TIME_DRIFT
                                THEN Duplicate(k[2]) ELSE TooOld
                     /\ o.c = c'
      ]_vars

\* The transfer created at NOW was committed, a sweep more than a retention
\* window later has pruned its record, and the identical request is answered
\* TooOld.
C29_Witness ==
    /\ last.op = "gc"
    /\ c.transfer_id_seq = 1
    /\ c.transfers = EmptyMap
    /\ time = NOW + TX_DEDUPLICATION_WINDOW + 1
    /\ c.tokens[1].owner = from_owner("bob")
    /\ \A call \in PastRequests :
         unwrap(call[2].created_at_time) = NOW
             => \A o \in TransferOutcomes(call) : o.res = TooOld

(***************************************************************************)
(* C30  Sweep and authorization                                            *)
(***************************************************************************)
\* The present aggregate and the aggregate after one more approve.
SweepInputs ==
    {c} \cup { icrc7_approve(c, call[1], time, overflow_checks, call[2]).c :
                 call \in TimeApproves }

\* On col, the lookup at the host time finds an approval before gc(time) iff
\* it finds one after it, for every owner account, delegate and item.
SweepKeepsLookup(col) ==
    LET swept == gc(col, time, overflow_checks).c IN
    \A from_acc \in Accounts : \A delegate \in Principals : \A x \in TokenIDs :
        is_some(find_approval_for_delegate(col, to_canonical(from_acc), delegate, x, time))
            <=> is_some(find_approval_for_delegate(swept, to_canonical(from_acc),
                                                   delegate, x, time))

\* C30: for every reachable state, owner account, delegate and item,
\* find_approval_for_delegate at the host time returns some approval before
\* gc(now) iff it returns some approval after gc(now): the sweep neither
\* revokes nor grants a delegate's transfer right.
C30_SweepKeepsAuthorization == \A col \in SweepInputs : SweepKeepsLookup(col)

\* While an owner has at most one approval the sweep changes no lookup: the
\* approval it prunes is one the lookup already refuses as expired.
SweepKeepsLookupOfSingleApproval ==
    \A col \in SweepInputs :
        (\A p \in Principals : Cardinality(ApprovalsOf(col, p)) <= 1)
            => SweepKeepsLookup(col)

(***************************************************************************)
(* C31  Sweep is idempotent and monotone                                   *)
(***************************************************************************)
\* The `now` values the sweeps are compared at, none below the retention
\* window: they prune nothing, the approval expired at 0, the approval
\* expiring at NOW + 1, and the transfers created at NOW.
SweepTimes ==
    {TX_DEDUPLICATION_WINDOW, NOW, NOW + 2, NOW + TX_DEDUPLICATION_WINDOW,
     NOW + TX_DEDUPLICATION_WINDOW + 1}

\* The present aggregate and the aggregates one and two approves lead to.
SweptCollections ==
    LET one == { icrc7_approve(c, call[1], time, overflow_checks, call[2]).c :
                   call \in TimeApproves }
        two == { icrc7_approve(col, call[1], time, overflow_checks, call[2]).c :
                   col \in one, call \in TimeApproves }
    IN  {c} \cup one \cup two

\* C31: for now, now1 <= now2 at least the retention window, gc(now) applied
\* twice gives the Collection gc(now) gives once, gc(now1) followed by
\* gc(now2) gives the Collection gc(now2) gives alone, and gc changes neither
\* the items, nor the id counters, nor the configuration.
C31_SweepIdempotentMonotone ==
    \A col \in SweptCollections : \A now1 \in SweepTimes : \A now2 \in SweepTimes :
        now1 <= now2 =>
            LET first  == gc(col, now1, overflow_checks)
                alone  == gc(col, now2, overflow_checks)
            IN  /\ first.res = OkUnit
                /\ gc(first.c, now1, overflow_checks) = first
                /\ gc(first.c, now2, overflow_checks) = alone
                /\ first.c.tokens = col.tokens
                /\ first.c.approval_id_seq = col.approval_id_seq
                /\ first.c.transfer_id_seq = col.transfer_id_seq
                /\ first.c.supply_cap = col.supply_cap
                /\ first.c.authority = col.authority

\* A transfer is in the log, and with two more approvals of different expiry
\* stored, an earlier sweep prunes one approval and a later sweep prunes the
\* other and the transfer: the two in a row leave what the later leaves alone.
C31_Witness ==
    /\ last.op = "icrc7_transfer"
    /\ c.transfers # EmptyMap
    /\ \E col \in SweptCollections :
         LET first == gc(col, NOW, overflow_checks).c
             alone == gc(col, NOW + TX_DEDUPLICATION_WINDOW + 1, overflow_checks).c
         IN  /\ Cardinality(DOMAIN col.approvals) = 2
             /\ Cardinality(DOMAIN first.approvals) = 1
             /\ first.transfers = col.transfers
             /\ alone.approvals = EmptyMap
             /\ alone.transfers = EmptyMap
             /\ gc(first, NOW + TX_DEDUPLICATION_WINDOW + 1, overflow_checks).c = alone

(***************************************************************************)
(* C32  Timestamp arithmetic on supplied values                            *)
(***************************************************************************)
\* The created_at values within the drift of the largest u64.
NearMaxCreatedAt == (U64_MAX - PERMITTED_TIME_DRIFT)..U64_MAX

\* For the given created_at values the time checks answer as unbounded
\* arithmetic does while the host time is far below them: transfer rejects
\* the request as CreatedInFuture{ledger_time: now}, and approve, which has
\* no check against the future, neither aborts nor answers TooOld.
FarFutureOn(createds) ==
    \A t \in createds :
        /\ \A o \in TransferOutcomes(TimedCall(Some(t))) :
              /\ o.res = CreatedInFuture(time)
              /\ o.c = c
        /\ \A caller \in Principals :
              icrc7_approve(c, caller, time, overflow_checks,
                            ApproveArg(None, "bob", None, None, Some(t))).res.kind
                  \notin {"Trap", "TooOld"}

\* C32: for every 64-bit created_at passed to transfer or approve the sums
\* created_at + drift, now + drift and created_at + 1 behave as in unbounded
\* arithmetic, so a created_at within the drift of the largest u64 is
\* rejected by transfer as CreatedInFuture, never as TooOld and never by an
\* abort, and is not TooOld for approve.
C32_TimestampArithmetic == FarFutureOn(NearMaxCreatedAt)

\* The same holds for the one created_at of that range whose sum with the
\* drift still fits in a u64.
FarFutureWithoutOverflow ==
    FarFutureOn({ t \in NearMaxCreatedAt : ~ add_overflows(t, PERMITTED_TIME_DRIFT) })

====
